---- MODULE Spec2Model ----
(***************************************************************************)
(* Smart-AI-Healthcare: the /analyze endpoint (Deployment/app.py), its     *)
(* four components (classify_risk, query_rag, find_nearby_doctors,         *)
(* send_email_alert) and the knowledge-base bootstrap (init_rag).          *)
(*                                                                         *)
(* Representation.                                                         *)
(*   - A text is a sequence of pieces.  Text that the code case-folds,     *)
(*     strips or searches is given character by character                  *)
(*     (<<"f","e","m","a","l","e">>); a fixed literal that is only ever    *)
(*     compared or passed on is given as one piece (<<"Gender">>).         *)
(*   - A JSON value is a record [t, v]: t is its type, v its payload.      *)
(*   - A float is kept as an integer number of tenths (27.5 is 275); the   *)
(*     distance arithmetic of find_nearby_doctors uses hundredths.         *)
(*   - A component returns [raised, value]: raised is TRUE when an         *)
(*     exception leaves the function instead of a value.                   *)
(***************************************************************************)
EXTENDS Integers, Sequences, FiniteSets, TLC

VARIABLES
    pc,          \* analyze: position of the request being handled
    body,        \* analyze: the HTTP request body as received
    data,        \* analyze: the value request.get_json() returned
    validated,   \* analyze: the request got past both validation returns
    risk,        \* analyze: local `risk`
    causes,      \* analyze: local `causes`
    suggestions, \* analyze: local `suggestions`
    doctors,     \* analyze: local `doctors`
    calls,       \* analyze: the component calls made so far, in order
    response,    \* analyze: the response returned
    unit,        \* a direct call of one component: inputs, collaborator, result
    dirExists,   \* init_rag: the directory rag_db exists on disk
    ipc,         \* init_rag: position of each starting process
    sawIndex,    \* init_rag: what os.path.exists returned to each process
    fetched,     \* init_rag: pages each process has fetched
    persisted    \* init_rag: how many times an index was persisted into rag_db

vars == <<pc, body, data, validated, risk, causes, suggestions, doctors, calls,
          response, unit, dirExists, ipc, sawIndex, fetched, persisted>>

analyzeVars == <<pc, body, data, validated, risk, causes, suggestions, doctors,
                 calls, response>>

bootVars == <<dirExists, ipc, sawIndex, fetched, persisted>>

----------------------------------------------------------------------------
(* Bounds of the model *)

\* longest generated answer, in tokens of AnswerTokens
MaxTokens == 3
\* most elements in a geospatial response (more than the limit of 5)
MaxElements == 6
\* largest radius tried besides the default, in tenths of a km
MaxRadius10 == 6
\* processes that start init_rag together
NumProcs == 2

----------------------------------------------------------------------------
(* Text *)

Upper == <<"A","C","D","E","F","G","L","M","N","O","R","S","T","U">>
Lowered == <<"a","c","d","e","f","g","l","m","n","o","r","s","t","u">>

\* str.lower() on one character
LowerChar(c) ==
    IF \E i \in 1..Len(Upper) : Upper[i] = c
    THEN Lowered[CHOOSE i \in 1..Len(Upper) : Upper[i] = c]
    ELSE c

\* str.lower()
Lower(s) == [i \in 1..Len(s) |-> LowerChar(s[i])]

Whitespace == {" ", "\n", "\t"}

\* str.strip(): drop leading and trailing whitespace
Strip(s) ==
    LET keep == {i \in 1..Len(s) : s[i] \notin Whitespace}
    IN  IF keep = {} THEN <<>>
        ELSE LET lo == CHOOSE i \in keep : \A j \in keep : i <= j
                 hi == CHOOSE i \in keep : \A j \in keep : j <= i
             IN  SubSeq(s, lo, hi)

\* `sub in s` for two texts: substring search
Contains(s, sub) ==
    \E i \in 0..(Len(s) - Len(sub)) : SubSeq(s, i + 1, i + Len(sub)) = sub

RECURSIVE Concat(_)
\* the concatenation of a sequence of texts
Concat(ts) == IF ts = <<>> THEN <<>> ELSE Head(ts) \o Concat(Tail(ts))

RECURSIVE SeqsUpTo(_, _)
\* the sequences over S of length at most n
SeqsUpTo(S, n) ==
    IF n = 0 THEN {<<>>}
    ELSE LET shorter == SeqsUpTo(S, n - 1)
         IN  shorter \cup {Append(q, x) : q \in {p \in shorter : Len(p) = n - 1}, x \in S}

\* list[:n]
Take(s, n) == SubSeq(s, 1, IF Len(s) < n THEN Len(s) ELSE n)

----------------------------------------------------------------------------
(* JSON values and Python's operations on them *)

JNull == [t |-> "null", v |-> 0]
JBool(b) == [t |-> "bool", v |-> b]
JNum(n) == [t |-> "num", v |-> n]
JStr(s) == [t |-> "str", v |-> s]
JArr(xs) == [t |-> "arr", v |-> xs]
JObj(f) == [t |-> "obj", v |-> f]

\* bool(x) / `not x`: None, False, 0, "", [] and {} are false
Truthy(x) ==
    CASE x.t = "null" -> FALSE
      [] x.t = "bool" -> x.v
      [] x.t = "num"  -> x.v # 0
      [] x.t = "str"  -> x.v # <<>>
      [] x.t = "arr"  -> x.v # <<>>
      [] x.t = "obj"  -> DOMAIN x.v # {}

\* `key in x` can be evaluated: a number, a boolean or None raises TypeError
InDefined(x) == x.t \in {"obj", "arr", "str"}

\* `key in x`: a key of a mapping, an element of a list, a substring of a text
In(key, x) ==
    CASE x.t = "obj" -> key \in DOMAIN x.v
      [] x.t = "arr" -> \E i \in 1..Len(x.v) : x.v[i] = JStr(<<key>>)
      [] x.t = "str" -> Contains(x.v, <<key>>)
      [] OTHER       -> FALSE

\* x.get(key, default) on a mapping
Get(x, key, default) == IF key \in DOMAIN x.v THEN x.v[key] ELSE default

Digits == <<"0","1","2","3","4","5","6","7","8","9">>

IsDigit(c) == \E i \in 1..10 : Digits[i] = c

DigitValue(c) == (CHOOSE i \in 1..10 : Digits[i] = c) - 1

RECURSIVE ParseInt(_)
\* the value of a text of decimal digits
ParseInt(s) ==
    IF s = <<>> THEN 0
    ELSE 10 * ParseInt(SubSeq(s, 1, Len(s) - 1)) + DigitValue(s[Len(s)])

\* float(x) succeeds: numbers, booleans and numeric texts convert; None,
\* lists, mappings and other texts raise TypeError or ValueError.  (Texts
\* here are all-digit or not numeric at all.)
FloatDefined(x) ==
    CASE x.t = "num"  -> TRUE
      [] x.t = "bool" -> TRUE
      [] x.t = "str"  -> x.v # <<>> /\ \A i \in 1..Len(x.v) : IsDigit(x.v[i])
      [] OTHER        -> FALSE

\* float(x), in tenths
Float(x) ==
    CASE x.t = "num"  -> x.v
      [] x.t = "bool" -> IF x.v THEN 10 ELSE 0
      [] x.t = "str"  -> 10 * ParseInt(x.v)
      [] OTHER        -> 0

\* str(x) for the values Gender takes here: a text is itself, None is "None"
Str(x) ==
    CASE x.t = "str"  -> x.v
      [] x.t = "null" -> <<"N","o","n","e">>
      [] x.t = "bool" -> IF x.v THEN <<"T","r","u","e">> ELSE <<"F","a","l","s","e">>
      [] OTHER        -> <<"?">>

Returned(x) == [raised |-> FALSE, value |-> x]
Raised == [raised |-> TRUE, value |-> JNull]

----------------------------------------------------------------------------
(* classify_risk *)

NumericFields == <<"Age", "Systolic BP", "Diastolic BP", "Cholesterol", "BMI">>

\* the texts that encode as gender 1
FemaleStrings == {<<"f","e","m","a","l","e">>, <<"f">>}

\* gender_str and gender: 1 for "female"/"f" in any letter case, 2 otherwise
GenderCode(input_data) ==
    LET gender_str == Lower(Str(Get(input_data, "Gender", JStr(<<>>))))
    IN  IF gender_str \in FemaleStrings THEN 1 ELSE 2

\* int(bool(x))
IntBool(x) == IF Truthy(x) THEN 1 ELSE 0

\* every float(...) of the try block succeeds
FeaturesDefined(input_data) ==
    /\ input_data.t = "obj"
    /\ \A i \in 1..Len(NumericFields) :
          FloatDefined(Get(input_data, NumericFields[i], JNum(0)))

\* the feature list with age and systolic pressure in each other's place
FeaturesSwapped(input_data) ==
    << GenderCode(input_data),
       Float(Get(input_data, "Systolic BP", JNum(0))),
       Float(Get(input_data, "Age", JNum(0))),
       Float(Get(input_data, "Diastolic BP", JNum(0))),
       Float(Get(input_data, "Cholesterol", JNum(0))),
       Float(Get(input_data, "BMI", JNum(0))),
       IntBool(Get(input_data, "Smoker", JBool(FALSE))),
       IntBool(Get(input_data, "Diabetes", JBool(FALSE))) >>

\* the list `features`; floats in tenths, the three codes as integers
Features(input_data) ==
    << GenderCode(input_data),
       Float(Get(input_data, "Age", JNum(0))),
       Float(Get(input_data, "Systolic BP", JNum(0))),
       Float(Get(input_data, "Diastolic BP", JNum(0))),
       Float(Get(input_data, "Cholesterol", JNum(0))),
       Float(Get(input_data, "BMI", JNum(0))),
       IntBool(Get(input_data, "Smoker", JBool(FALSE))),
       IntBool(Get(input_data, "Diabetes", JBool(FALSE))) >>

\* what model.predict does with the features: a label, or an exception
PredictOutcomes ==
    {[kind |-> "label", label |-> l] : l \in {"Good", "Fair", "Bad"}}
        \cup {[kind |-> "throws", label |-> "none"]}

\* classify_risk without its try/except: a failure leaves the function
ClassifyRiskUnguarded(input_data, predict) ==
    IF ~FeaturesDefined(input_data) \/ predict.kind = "throws"
    THEN Raised
    ELSE Returned(predict.label)

\* classify_risk(input_data) with the model answering `predict`
ClassifyRisk(input_data, predict) ==
    IF ~FeaturesDefined(input_data) \/ predict.kind = "throws"
    THEN Returned("Unknown")
    ELSE Returned(predict.label)

----------------------------------------------------------------------------
(* query_rag *)

KwCause == <<"c","a","u","s","e">>
KwSuggest == <<"s","u","g","g","e","s","t">>
KwRecommend == <<"r","e","c","o","m","m","e","n","d">>

ConsultFallback == <<"Consult a healthcare provider for personalized advice.">>
UnableFallback == <<"Unable to fetch RAG insights at the moment.">>

\* the dict of the except branch
RagFailure == [causes |-> <<>>, suggestions |-> <<UnableFallback>>]

\* `answer`: result.get("result", "").strip()
AnswerOf(chain) == Strip(IF chain.kind = "answer" THEN chain.result ELSE <<>>)

\* the parsing without .lower(): the keywords are matched case-sensitively
PartitionCaseSensitive(answer) ==
    LET cs == IF Contains(answer, KwCause) THEN <<answer>> ELSE <<>>
        ss == IF Contains(answer, KwSuggest) \/ Contains(answer, KwRecommend)
              THEN <<answer>> ELSE <<>>
    IN  [causes      |-> IF cs # <<>> THEN cs ELSE <<answer>>,
         suggestions |-> IF ss # <<>> THEN ss ELSE <<ConsultFallback>>]

\* the parsing of `answer` into the returned dict
Partition(answer) ==
    LET low == Lower(answer)
        cs == IF Contains(low, KwCause) THEN <<answer>> ELSE <<>>
        ss == IF Contains(low, KwSuggest) \/ Contains(low, KwRecommend)
              THEN <<answer>> ELSE <<>>
    IN  [causes      |-> IF cs # <<>> THEN cs ELSE <<answer>>,
         suggestions |-> IF ss # <<>> THEN ss ELSE <<ConsultFallback>>]

\* query_rag(patient_data, risk_level) with qa_chain answering `chain`:
\*   "throws"      the retrieval/generation call raises
\*   "null_result" the result's "result" is None (None.strip() raises)
\*   "no_result"   the result has no "result" key
\*   "answer"      the result's "result" is the text chain.result
\* patient_data.get raises on anything but a mapping.
QueryRag(patient_data, risk_level, chain) ==
    IF patient_data.t # "obj" \/ chain.kind \in {"throws", "null_result"}
    THEN Returned(RagFailure)
    ELSE Returned(Partition(AnswerOf(chain)))

----------------------------------------------------------------------------
(* find_nearby_doctors *)

\* the limit of the slice [:5]
DoctorLimit == 5
\* radius_km's default, in tenths of a km
DefaultRadius10 == 100

TagDefaults == [name      |-> <<"Unnamed Doctor">>,
                specialty |-> <<"General Practitioner">>,
                email     |-> <<"N/A">>]

\* element.get("tags", {}).get(key, default)
Tag(element, key) ==
    IF key \in DOMAIN element.tags THEN element.tags[key] ELSE TagDefaults[key]

\* radius_km * 0.3 + 0.5 * n, in hundredths of a km (radius in tenths)
RawDistance100(radius10, n) == 3 * radius10 + 50 * n

\* the value is halfway between two tenths
IsTie(hundredths) == hundredths % 10 = 5

\* truncation to one decimal instead of rounding
RoundTenthTruncating(hundredths, up) == hundredths \div 10

\* round(x, 1), in tenths.  Halfway values go up or down with the binary
\* floating-point value of x (0.15 rounds to 0.1, 0.65 to 0.7): `up` says which.
RoundTenth(hundredths, up) ==
    LET q == hundredths \div 10
        r == hundredths % 10
    IN  IF r < 5 THEN q
        ELSE IF r > 5 THEN q + 1
        ELSE IF up THEN q + 1 ELSE q

\* the record appended for `element` when `n` doctors are already in the list
DoctorRecord(element, radius10, n, up) ==
    [name        |-> Tag(element, "name"),
     specialty   |-> Tag(element, "specialty"),
     distance_km |-> RoundTenth(RawDistance100(radius10, n), up),
     email       |-> Tag(element, "email")]

\* find_nearby_doctors without its try/except: a failure leaves the function
FindNearbyDoctorsUnguarded(lat, lon, radius_km, overpass, ties) ==
    IF radius_km.t # "num" \/ overpass.kind # "json"
    THEN Raised
    ELSE LET elements == Take(IF overpass.hasElements THEN overpass.elements
                              ELSE <<>>, DoctorLimit)
         IN  IF \E i \in 1..Len(elements) : ~elements[i].dict
             THEN Raised
             ELSE Returned([i \in 1..Len(elements) |->
                      DoctorRecord(elements[i], radius_km.v, i - 1, ties[i - 1])])

\* find_nearby_doctors(lat, lon, radius_km) with the Overpass API answering
\* `overpass`:
\*   "timeout"   requests.post raises
\*   "not_json"  response.json() raises
\*   "list"      the JSON is not a mapping (data.get raises)
\*   "json"      a mapping; hasElements says whether it has "elements"
\* An element that is not a mapping, or a radius that is not a number,
\* raises inside the try.  ties[n] is the rounding direction of a halfway value.
FindNearbyDoctors(lat, lon, radius_km, overpass, ties) ==
    IF radius_km.t # "num" \/ overpass.kind # "json"
    THEN Returned(<<>>)
    ELSE LET elements == Take(IF overpass.hasElements THEN overpass.elements
                              ELSE <<>>, DoctorLimit)
         IN  IF \E i \in 1..Len(elements) : ~elements[i].dict
             THEN Returned(<<>>)
             ELSE Returned([i \in 1..Len(elements) |->
                      DoctorRecord(elements[i], radius_km.v, i - 1, ties[i - 1])])

----------------------------------------------------------------------------
(* send_email_alert *)

\* shorten_text's limit and the number of list items rendered
ShortenLimit == 400
ItemLimit == 3

\* shorten_text(text, limit), on a text given character by character
ShortenText(text) ==
    IF Len(text) > ShortenLimit THEN SubSeq(text, 1, ShortenLimit) \o <<"...">>
    ELSE text

\* the <li> items rendered from a list: causes[:3], each shortened
RenderItems(items) ==
    LET shown == Take(items, ItemLimit)
    IN  [i \in 1..Len(shown) |-> ShortenText(shown[i])]

\* send_email_alert(to_email, risk, causes, suggestions) with the SMTP relay
\* answering `smtp` ("sent", or "fails": connect, starttls, login or send
\* raises).  Every failure is caught; the function returns None.
SendEmailAlert(to_email, risk_, causes_, suggestions_, smtp) ==
    Returned([delivered |-> smtp = "sent",
              causes_html |-> RenderItems(causes_),
              suggestions_html |-> RenderItems(suggestions_)])

----------------------------------------------------------------------------
(* Inputs of the direct component calls *)

T_female == <<"f","e","m","a","l","e">>
T_Female == <<"F","e","m","a","l","e">>
T_FEMALE == <<"F","E","M","A","L","E">>
T_f == <<"f">>
T_F == <<"F">>
T_male == <<"m","a","l","e">>
T_M == <<"M">>
T_abc == <<"a","b","c">>
T_45 == <<"4","5">>
T_no == <<"n","o">>

GenderValues ==
    {JStr(T_female), JStr(T_Female), JStr(T_FEMALE), JStr(T_f), JStr(T_F),
     JStr(T_male), JStr(T_M), JStr(<<>>), JNull}
AgeValues == {JNum(450), JNum(300), JStr(T_45), JStr(T_abc)}
SystolicValues == {JNum(1300), JNull}
DiastolicValues == {JNum(850)}
CholesterolValues == {JNum(2100)}
BmiValues == {JNum(275)}
SmokerValues == {JBool(TRUE), JBool(FALSE), JStr(T_no), JNum(0)}
DiabetesValues == {JBool(FALSE), JBool(TRUE), JNull}

VitalKeys == {"Gender", "Age", "Systolic BP", "Diastolic BP", "Cholesterol",
              "BMI", "Smoker", "Diabetes"}

\* a vitals mapping with the given values
Vitals(g, a, sy, di, ch, bm, sm, db) ==
    [k \in VitalKeys |->
        CASE k = "Gender"       -> g
          [] k = "Age"          -> a
          [] k = "Systolic BP"  -> sy
          [] k = "Diastolic BP" -> di
          [] k = "Cholesterol"  -> ch
          [] k = "BMI"          -> bm
          [] k = "Smoker"       -> sm
          [] k = "Diabetes"     -> db]

\* the mapping f without the keys of `dropped`
Without(f, dropped) == [k \in DOMAIN f \ dropped |-> f[k]]

\* keys a caller of classify_risk may leave out
DroppableKeys == {"Gender", "Age", "Smoker"}

\* the spec's fixed example: female, 45, 130/85, 210, 27.5, smoker, no diabetes
ExampleVitals ==
    JObj(Vitals(JStr(T_female), JNum(450), JNum(1300), JNum(850), JNum(2100),
                JNum(275), JBool(TRUE), JBool(FALSE)))

AnswerTokens ==
    {<<" ">>, <<"\n">>, <<"C","a">>, <<"u","s","e">>, <<"S","u","g","g","e","s","t">>,
     <<"r","e","c","o","m","m","e","n","d">>, <<"o","k">>}

\* the answers the generation model may give
Answers == {Concat(ts) : ts \in SeqsUpTo(AnswerTokens, MaxTokens)}

ChainOutcomes ==
    {[kind |-> k, result |-> <<>>] : k \in {"throws", "null_result", "no_result"}}
        \cup {[kind |-> "answer", result |-> a] : a \in Answers}

T_DrA == <<"Dr A">>
T_Cardio == <<"Cardiology">>
T_Mail == <<"a@clinic.example">>

\* a node with all three tags, a node with a name only, a node without tags,
\* and an element that is not a mapping
ElemFull == [dict |-> TRUE,
             tags |-> [name |-> T_DrA, specialty |-> T_Cardio, email |-> T_Mail]]
ElemBare == [dict |-> TRUE, tags |-> [k \in {} |-> <<>>]]
ElemBad  == [dict |-> FALSE, tags |-> [k \in {} |-> <<>>]]
ElementValues == {ElemFull, ElemBare, ElemBad}

OverpassOutcomes ==
    {[kind |-> k, hasElements |-> FALSE, elements |-> <<>>] :
        k \in {"timeout", "not_json", "list", "json"}}
        \cup {[kind |-> "json", hasElements |-> TRUE, elements |-> es] :
                es \in SeqsUpTo(ElementValues, MaxElements)}

\* radii: tenths of a km up to the bound, the default, and a non-number
RadiusValues == {JNum(r) : r \in 0..MaxRadius10} \cup {JNum(DefaultRadius10), JNull}

NoTies == [n \in 0..(DoctorLimit - 1) |-> FALSE]

\* the rounding directions floating point may take for this radius
TieChoices(radius_km) ==
    IF radius_km.t = "num" /\ IsTie(RawDistance100(radius_km.v, 0))
    THEN [0..(DoctorLimit - 1) -> BOOLEAN]
    ELSE {NoTies}

SmtpOutcomes == {"sent", "fails"}

----------------------------------------------------------------------------
(* Initial state: no request, no component call, no process started *)

Procs == 1..NumProcs

NoResponse ==
    [status |-> 0, keys |-> {}, error |-> <<>>, missing |-> <<>>,
     risk |-> "none", causes |-> <<>>, suggestions |-> <<>>, doctors |-> <<>>]

Init ==
    /\ pc = "Idle"
    /\ body = [kind |-> "none", json |-> JNull]
    /\ data = JNull
    /\ validated = FALSE
    /\ risk = "none"
    /\ causes = <<>>
    /\ suggestions = <<>>
    /\ doctors = <<>>
    /\ calls = <<>>
    /\ response = NoResponse
    /\ unit = [fn |-> "none"]
    /\ dirExists = FALSE
    /\ ipc = [p \in Procs |-> "start"]
    /\ sawIndex = [p \in Procs |-> FALSE]
    /\ fetched = [p \in Procs |-> 0]
    /\ persisted = 0

----------------------------------------------------------------------------
(* Direct calls of the components: one call per behaviour, on any input *)

CallClassifyRisk ==
    /\ unit.fn = "none"
    /\ UNCHANGED <<analyzeVars, bootVars>>
    /\ \E g \in GenderValues, a \in AgeValues, sy \in SystolicValues,
       di \in DiastolicValues, ch \in CholesterolValues, bm \in BmiValues,
       sm \in SmokerValues, db \in DiabetesValues,
       dropped \in SUBSET DroppableKeys, whole \in BOOLEAN,
       predict \in PredictOutcomes :
        LET input == IF whole
                     THEN JObj(Without(Vitals(g, a, sy, di, ch, bm, sm, db), dropped))
                     ELSE JNull
        IN  unit' = [fn       |-> "classify_risk",
                     input    |-> input,
                     collab   |-> predict,
                     defined  |-> FeaturesDefined(input),
                     features |-> IF FeaturesDefined(input) THEN Features(input)
                                  ELSE <<>>,
                     result   |-> ClassifyRisk(input, predict)]

CallQueryRag ==
    /\ unit.fn = "none"
    /\ UNCHANGED <<analyzeVars, bootVars>>
    /\ \E patient \in {ExampleVitals, JNull}, r \in {"Good", "Fair", "Bad", "Unknown"},
       chain \in ChainOutcomes :
        unit' = [fn     |-> "query_rag",
                 input  |-> patient,
                 risk   |-> r,
                 collab |-> chain,
                 result |-> QueryRag(patient, r, chain)]

CallFindNearbyDoctors ==
    /\ unit.fn = "none"
    /\ UNCHANGED <<analyzeVars, bootVars>>
    /\ \E lat \in {JNum(0), JNull}, radius_km \in RadiusValues,
       overpass \in OverpassOutcomes :
        \E ties \in TieChoices(radius_km) :
            unit' = [fn     |-> "find_nearby_doctors",
                     lat    |-> lat,
                     radius |-> radius_km,
                     collab |-> overpass,
                     result |-> FindNearbyDoctors(lat, JNum(0), radius_km, overpass, ties)]

CallSendEmailAlert ==
    /\ unit.fn = "none"
    /\ UNCHANGED <<analyzeVars, bootVars>>
    /\ \E to \in {JStr(T_Mail), JNull}, r \in {"Good", "Fair", "Bad", "Unknown"},
       cs \in {<<>>, <<T_abc>>, <<T_abc, T_no, T_45, T_male>>},
       smtp \in SmtpOutcomes :
        unit' = [fn     |-> "send_email_alert",
                 to     |-> to,
                 risk   |-> r,
                 causes |-> cs,
                 collab |-> smtp,
                 result |-> SendEmailAlert(to, r, cs, <<UnableFallback>>, smtp)]

NextUnit ==
    \/ CallClassifyRisk
    \/ CallQueryRag
    \/ CallFindNearbyDoctors
    \/ CallSendEmailAlert

SpecUnit == Init /\ [][NextUnit]_vars

----------------------------------------------------------------------------
(* The /analyze endpoint *)

\* the list `required`
Required == <<"Gender", "Age", "Systolic BP", "Diastolic BP", "Cholesterol",
              "BMI", "Smoker", "Diabetes", "Email", "Latitude", "Longitude">>

RequiredSet == {Required[i] : i \in 1..Len(Required)}

ResponseKeys == {"risk", "causes", "suggestions", "doctors"}

E_NoJson == <<"No JSON provided">>
E_Missing == <<"Missing fields">>
\* str(e) of the exception the catch-all caught
E_Exception == <<"str(e)">>

\* request.get_json() on the body:
\*   "malformed"  JSON content type, body empty or not parseable: Flask's
\*                on_json_loading_failed raises BadRequest
\*   "no_json"    the content type is not JSON: Flask returns None, or raises
\*                UnsupportedMediaType from version 2.1 on (`raises415`)
\*   "json"       the parsed value
GetJson(b, raises415) ==
    CASE b.kind = "malformed" -> Raised
      [] b.kind = "no_json"   -> IF raises415 THEN Raised ELSE Returned(JNull)
      [] OTHER                -> Returned(b.json)

\* missing = [r for r in required if r not in data]
MissingFields(d) ==
    LET absent(r) == ~In(r, d)
    IN  SelectSeq(Required, absent)

\* data["Latitude"], data["Email"]: only a mapping can be subscripted by a key
SubscriptDefined(d, key) == d.t = "obj" /\ key \in DOMAIN d.v

\* the alert condition widened to every label but "Good"
ShouldNotifyUnlessGood(r) == r # "Good"

\* if risk == "Bad"
ShouldNotify(r) == r = "Bad"

ErrorResponse(code, msg, miss) ==
    [status |-> code, keys |-> IF miss = <<>> THEN {"error"} ELSE {"error", "missing"},
     error |-> msg, missing |-> miss,
     risk |-> "none", causes |-> <<>>, suggestions |-> <<>>, doctors |-> <<>>]

OkResponse(r, cs, ss, ds) ==
    [status |-> 200, keys |-> ResponseKeys, error |-> <<>>, missing |-> <<>>,
     risk |-> r, causes |-> cs, suggestions |-> ss, doctors |-> ds]

\* except Exception as e: return jsonify({"error": str(e)}), 500
CatchAll ==
    /\ response' = ErrorResponse(500, E_Exception, <<>>)
    /\ pc' = "Done"

(* Request bodies *)

ProfileA ==
    [k \in RequiredSet \cup {"Note"} |->
        CASE k = "Gender"       -> JStr(T_female)
          [] k = "Age"          -> JNum(450)
          [] k = "Systolic BP"  -> JNum(1300)
          [] k = "Diastolic BP" -> JNum(850)
          [] k = "Cholesterol"  -> JNum(2100)
          [] k = "BMI"          -> JNum(275)
          [] k = "Smoker"       -> JBool(TRUE)
          [] k = "Diabetes"     -> JBool(FALSE)
          [] k = "Email"        -> JStr(T_Mail)
          [] k = "Latitude"     -> JNum(515)
          [] k = "Longitude"    -> JNum(-1)
          [] OTHER              -> JStr(T_abc)]

\* malformed values under every key
ProfileB ==
    [k \in RequiredSet \cup {"Note"} |->
        CASE k = "Age"      -> JStr(T_abc)
          [] k = "Gender"   -> JNum(10)
          [] k = "Email"    -> JNum(0)
          [] OTHER          -> JNull]

Profiles == {ProfileA, ProfileB}

\* the required names as JSON strings
NameList == [i \in 1..Len(Required) |-> JStr(<<Required[i]>>)]

JsonBodies ==
    {JObj([k \in K |-> prof[k]]) : K \in SUBSET (RequiredSet \cup {"Note"}), prof \in Profiles}
        \cup {JNull, JNum(0), JNum(50), JBool(TRUE), JArr(<<>>), JArr(NameList),
              JArr(Tail(NameList)), JStr(Required), JStr(Tail(Required))}

Bodies ==
    {[kind |-> k, json |-> JNull] : k \in {"malformed", "no_json"}}
        \cup {[kind |-> "json", json |-> j] : j \in JsonBodies}

\* what the collaborators answer while a request is handled
AnalyzeChains ==
    {c \in ChainOutcomes :
        \/ c.kind \in {"throws", "no_result"}
        \/ c.kind = "answer" /\ c.result \in
              {<<"o","k">>, <<" ","C","a","u","s","e">>,
               <<"C","a","u","s","e","r","e","c","o","m","m","e","n","d">>}}

AnalyzeOverpass ==
    {o \in OverpassOutcomes :
        \/ o.kind \in {"timeout", "list"}
        \/ o.kind = "json" /\ o.elements \in
              {<<>>, <<ElemFull, ElemBare>>, <<ElemFull, ElemBad>>,
               <<ElemBare, ElemFull, ElemFull, ElemBare, ElemFull, ElemFull>>}}

Call(fn, args, collab, result) ==
    [fn |-> fn, args |-> args, collab |-> collab, result |-> result]

\* a request arrives
Receive ==
    /\ pc = "Idle"
    /\ \E b \in Bodies : body' = b
    /\ pc' = "Validating"
    /\ UNCHANGED <<data, validated, risk, causes, suggestions, doctors, calls,
                   response, unit, bootVars>>

\* lines 171-183: get_json, the two validation returns
Validate ==
    /\ pc = "Validating"
    /\ \E raises415 \in BOOLEAN :
        LET got == GetJson(body, raises415)
        IN  IF got.raised
            THEN CatchAll /\ UNCHANGED <<data, validated>>
            ELSE /\ data' = got.value
                 /\ IF ~Truthy(got.value)
                    THEN /\ response' = ErrorResponse(400, E_NoJson, <<>>)
                         /\ pc' = "Done"
                         /\ UNCHANGED validated
                    ELSE IF ~InDefined(got.value)
                    THEN CatchAll /\ UNCHANGED validated
                    ELSE IF MissingFields(got.value) # <<>>
                    THEN /\ response' = ErrorResponse(400, E_Missing,
                                                      MissingFields(got.value))
                         /\ pc' = "Done"
                         /\ UNCHANGED validated
                    ELSE /\ validated' = TRUE
                         /\ pc' = "Classifying"
                         /\ UNCHANGED response
    /\ UNCHANGED <<body, risk, causes, suggestions, doctors, calls, unit, bootVars>>

\* line 186: risk = classify_risk(data)
Classify ==
    /\ pc = "Classifying"
    /\ \E predict \in PredictOutcomes :
        LET r == ClassifyRisk(data, predict)
        IN  /\ calls' = Append(calls, Call("classify_risk", <<data>>, predict.kind, r))
            /\ IF r.raised
               THEN CatchAll /\ UNCHANGED risk
               ELSE risk' = r.value /\ pc' = "Retrieving" /\ UNCHANGED response
    /\ UNCHANGED <<body, data, validated, causes, suggestions, doctors, unit, bootVars>>

\* lines 189-191: rag_result = query_rag(data, risk)
Retrieve ==
    /\ pc = "Retrieving"
    /\ \E chain \in AnalyzeChains :
        LET r == QueryRag(data, risk, chain)
        IN  /\ calls' = Append(calls, Call("query_rag", <<data, risk>>, chain.kind, r))
            /\ IF r.raised
               THEN CatchAll /\ UNCHANGED <<causes, suggestions>>
               ELSE /\ causes' = r.value.causes
                    /\ suggestions' = r.value.suggestions
                    /\ pc' = "Locating"
                    /\ UNCHANGED response
    /\ UNCHANGED <<body, data, validated, risk, doctors, unit, bootVars>>

\* line 194: doctors = find_nearby_doctors(data["Latitude"], data["Longitude"])
Locate ==
    /\ pc = "Locating"
    /\ IF ~(SubscriptDefined(data, "Latitude") /\ SubscriptDefined(data, "Longitude"))
       THEN CatchAll /\ UNCHANGED <<doctors, calls>>
       ELSE \E overpass \in AnalyzeOverpass :
            LET lat == data.v["Latitude"]
                lon == data.v["Longitude"]
                r == FindNearbyDoctors(lat, lon, JNum(DefaultRadius10), overpass, NoTies)
            IN  /\ calls' = Append(calls, Call("find_nearby_doctors", <<lat, lon>>,
                                               overpass.kind, r))
                /\ IF r.raised
                   THEN CatchAll /\ UNCHANGED doctors
                   ELSE doctors' = r.value /\ pc' = "Notifying" /\ UNCHANGED response
    /\ UNCHANGED <<body, data, validated, risk, causes, suggestions, unit, bootVars>>

\* lines 197-198: the alert, when the risk is "Bad"
Notify ==
    /\ pc = "Notifying"
    /\ ShouldNotify(risk)
    /\ IF ~SubscriptDefined(data, "Email")
       THEN CatchAll /\ UNCHANGED calls
       ELSE \E smtp \in SmtpOutcomes :
            LET r == SendEmailAlert(data.v["Email"], risk, causes, suggestions, smtp)
            IN  /\ calls' = Append(calls, Call("send_email_alert",
                                   <<data.v["Email"], risk, causes, suggestions>>, smtp, r))
                /\ IF r.raised
                   THEN CatchAll
                   ELSE pc' = "Responding" /\ UNCHANGED response
    /\ UNCHANGED <<body, data, validated, risk, causes, suggestions, doctors, unit,
                   bootVars>>

\* line 197 is false: no alert
SkipNotify ==
    /\ pc = "Notifying"
    /\ ~ShouldNotify(risk)
    /\ pc' = "Responding"
    /\ UNCHANGED <<body, data, validated, risk, causes, suggestions, doctors, calls,
                   response, unit, bootVars>>

\* lines 200-206: the response
Respond ==
    /\ pc = "Responding"
    /\ response' = OkResponse(risk, causes, suggestions, doctors)
    /\ pc' = "Done"
    /\ UNCHANGED <<body, data, validated, risk, causes, suggestions, doctors, calls,
                   unit, bootVars>>

\* the handler has returned; the server waits for the next request
Finish ==
    /\ pc = "Done"
    /\ pc' = "Idle"
    /\ body' = [kind |-> "none", json |-> JNull]
    /\ data' = JNull
    /\ validated' = FALSE
    /\ risk' = "none"
    /\ causes' = <<>>
    /\ suggestions' = <<>>
    /\ doctors' = <<>>
    /\ calls' = <<>>
    /\ response' = NoResponse
    /\ UNCHANGED <<unit, bootVars>>

Next ==
    \/ Receive
    \/ Validate
    \/ Classify
    \/ Retrieve
    \/ Locate
    \/ Notify
    \/ SkipNotify
    \/ Respond
    \/ Finish

Spec == Init /\ [][Next]_vars

----------------------------------------------------------------------------
(* init_rag: the knowledge-base bootstrap, run by each starting process *)

\* len(web_pages)
PageCount == 5

\* the check ignored: always rebuild
AfterCheckAlwaysBuild(exists) == "fetch"

\* if os.path.exists(persist_dir): load, otherwise build
AfterCheck(exists) == IF exists THEN "load" ELSE "fetch"

\* line 18: os.path.exists(persist_dir)
CheckIndex(p) ==
    /\ ipc[p] = "start"
    /\ sawIndex' = [sawIndex EXCEPT ![p] = dirExists]
    /\ ipc' = [ipc EXCEPT ![p] = AfterCheck(dirExists)]
    /\ UNCHANGED <<dirExists, fetched, persisted, unit, analyzeVars>>

\* lines 19-22: open the persisted index
LoadIndex(p) ==
    /\ ipc[p] = "load"
    /\ ipc' = [ipc EXCEPT ![p] = "ready"]
    /\ UNCHANGED <<dirExists, sawIndex, fetched, persisted, unit, analyzeVars>>

\* lines 34-36: one pass of the loop over web_pages
FetchPage(p) ==
    /\ ipc[p] = "fetch"
    /\ fetched[p] < PageCount
    /\ fetched' = [fetched EXCEPT ![p] = @ + 1]
    /\ UNCHANGED <<dirExists, ipc, sawIndex, persisted, unit, analyzeVars>>

\* loader.load() raises: nothing catches it, the import fails
FetchFails(p) ==
    /\ ipc[p] = "fetch"
    /\ fetched[p] < PageCount
    /\ ipc' = [ipc EXCEPT ![p] = "crashed"]
    /\ UNCHANGED <<dirExists, sawIndex, fetched, persisted, unit, analyzeVars>>

\* lines 38-42: split, embed, Chroma.from_documents(persist_directory=...);
\* the store may create its directory here or only when persisting
BuildIndex(p) ==
    /\ ipc[p] = "fetch"
    /\ fetched[p] = PageCount
    /\ \E created \in BOOLEAN : dirExists' = (dirExists \/ created)
    /\ ipc' = [ipc EXCEPT ![p] = "persist"]
    /\ UNCHANGED <<sawIndex, fetched, persisted, unit, analyzeVars>>

\* lines 43-46: vectordb.persist()
PersistIndex(p) ==
    /\ ipc[p] = "persist"
    /\ dirExists' = TRUE
    /\ persisted' = persisted + 1
    /\ ipc' = [ipc EXCEPT ![p] = "ready"]
    /\ UNCHANGED <<sawIndex, fetched, unit, analyzeVars>>

\* rag_db may or may not be there when the processes start
InitBoot ==
    /\ pc = "Idle"
    /\ body = [kind |-> "none", json |-> JNull]
    /\ data = JNull
    /\ validated = FALSE
    /\ risk = "none"
    /\ causes = <<>>
    /\ suggestions = <<>>
    /\ doctors = <<>>
    /\ calls = <<>>
    /\ response = NoResponse
    /\ unit = [fn |-> "none"]
    /\ dirExists \in BOOLEAN
    /\ ipc = [p \in Procs |-> "start"]
    /\ sawIndex = [p \in Procs |-> FALSE]
    /\ fetched = [p \in Procs |-> 0]
    /\ persisted = 0

NextBoot ==
    \/ \E p \in Procs : CheckIndex(p)
    \/ \E p \in Procs : LoadIndex(p)
    \/ \E p \in Procs : FetchPage(p)
    \/ \E p \in Procs : FetchFails(p)
    \/ \E p \in Procs : BuildIndex(p)
    \/ \E p \in Procs : PersistIndex(p)

SpecBoot == InitBoot /\ [][NextBoot]_vars

----------------------------------------------------------------------------
(* Properties of the endpoint (Spec) *)

\* the body is a JSON object that has every required field
HasAllFields ==
    /\ body.kind = "json"
    /\ body.json.t = "obj"
    /\ RequiredSet \subseteq DOMAIN body.json.v

\* the body is a JSON object that lacks a required field
LacksAField ==
    /\ body.kind = "json"
    /\ body.json.t = "obj"
    /\ ~(RequiredSet \subseteq DOMAIN body.json.v)

CallNames == [i \in 1..Len(calls) |-> calls[i].fn]

IsAlert(c) == c.fn = "send_email_alert"
AlertCalls == SelectSeq(calls, IsAlert)

\* C1: a request whose JSON object has all 11 required fields is answered
\* with 200 and exactly the keys risk, causes, suggestions and doctors,
\* whatever the classifier, the RAG chain, the Overpass API and SMTP do.
C1_ValidPayloadGets200 ==
    (pc = "Done" /\ HasAllFields) =>
        /\ response.status = 200
        /\ response.keys = {"risk", "causes", "suggestions", "doctors"}

\* C1's case: a full payload classified "Bad" whose RAG call, doctor lookup
\* and email all failed, answered with 200
C1_Witness ==
    /\ pc = "Done"
    /\ HasAllFields
    /\ Len(calls) = 4
    /\ calls[1].result.value = "Bad"
    /\ calls[2].collab = "throws"
    /\ calls[3].collab = "timeout"
    /\ calls[4].collab = "fails"
    /\ response.status = 200
    /\ response.doctors = <<>>

\* C2: a JSON object that lacks one or more required fields (also one that
\* lacks them all) is answered with 400, error "Missing fields", and
\* `missing` = the absent required keys in the order of the required list.
C2_MissingFieldsListed ==
    (pc = "Done" /\ LacksAField) =>
        /\ response.status = 400
        /\ response.error = <<"Missing fields">>
        /\ LET absent(r) == r \notin DOMAIN body.json.v
           IN  response.missing = SelectSeq(Required, absent)

\* C3: a request whose body is absent or does not parse as JSON is answered
\* with 400 {"error": "No JSON provided"}, never with 500.
C3_NoJsonIs400 ==
    (pc = "Done" /\ body.kind \in {"malformed", "no_json"}) =>
        /\ response.status = 400
        /\ response.error = <<"No JSON provided">>
        /\ response.keys = {"error"}

\* C4: the notifier is invoked exactly once when the classifier adapter
\* returned "Bad", with the request's Email and the causes and suggestions of
\* the response, and not at all otherwise.
C4_NotifyIffBad ==
    /\ Len(AlertCalls) <= 1
    /\ pc = "Done" =>
          IF \E i \in 1..Len(calls) :
                calls[i].fn = "classify_risk" /\ calls[i].result.value = "Bad"
          THEN /\ Len(AlertCalls) = 1
               /\ response.status = 200
               /\ AlertCalls[1].args =
                    <<body.json.v["Email"], "Bad", response.causes, response.suggestions>>
          ELSE Len(AlertCalls) = 0

\* C4's case: a "Bad" request answered after one alert carrying its causes
C4_Witness ==
    /\ pc = "Done"
    /\ response.risk = "Bad"
    /\ Len(AlertCalls) = 1
    /\ response.causes # <<>>
    /\ AlertCalls[1].args[3] = response.causes

\* C9: a request that passes validation calls classify_risk, then query_rag
\* with the label classify_risk returned, then find_nearby_doctors, then at
\* most the notifier, once each and in that order, before it is answered; a
\* request that fails validation calls none of them.
C9_PipelineOrder ==
    pc = "Done" =>
        IF validated
        THEN /\ CallNames \in
                  {<<"classify_risk", "query_rag", "find_nearby_doctors">>,
                   <<"classify_risk", "query_rag", "find_nearby_doctors",
                     "send_email_alert">>}
             /\ calls[2].args[2] = calls[1].result.value
        ELSE calls = <<>>

----------------------------------------------------------------------------
(* Properties of the components called directly (SpecUnit) *)

\* C5: no component lets a failure out as an exception: when its collaborator
\* fails (or the input is malformed) classify_risk returns "Unknown",
\* query_rag the fixed fallback, find_nearby_doctors the empty list, and
\* send_email_alert returns normally.
C5_FailuresBecomeDefaults ==
    unit.fn # "none" =>
        /\ ~unit.result.raised
        /\ (unit.fn = "classify_risk" /\ unit.collab.kind = "throws")
              => unit.result.value = "Unknown"
        /\ (unit.fn = "classify_risk" /\ unit.input.t = "obj"
              /\ "Age" \in DOMAIN unit.input.v /\ unit.input.v["Age"].t = "str"
              /\ unit.input.v["Age"].v = <<"a","b","c">>)
              => unit.result.value = "Unknown"
        /\ (unit.fn = "query_rag" /\ unit.collab.kind = "throws")
              => unit.result.value =
                    [causes |-> <<>>,
                     suggestions |-> << <<"Unable to fetch RAG insights at the moment.">> >>]
        /\ (unit.fn = "find_nearby_doctors"
              /\ unit.collab.kind \in {"timeout", "not_json", "list"})
              => unit.result.value = <<>>

\* C5's case: the RAG chain raised and query_rag returned the fallback
C5_Witness ==
    /\ unit.fn = "query_rag"
    /\ unit.collab.kind = "throws"
    /\ unit.input.t = "obj"
    /\ ~unit.result.raised
    /\ unit.result.value.causes = <<>>

\* find_nearby_doctors was called with a numeric radius
LocatorCall == unit.fn = "find_nearby_doctors" /\ unit.radius.t = "num"

\* C6 as stated: at most 5 records, the i-th with distance_km exactly
\* radius*0.3 + 0.5*i (distance in tenths, the formula in hundredths).
C6_ExactDistance ==
    LocatorCall =>
        /\ Len(unit.result.value) <= 5
        /\ \A i \in 1..Len(unit.result.value) :
              10 * unit.result.value[i].distance_km = 3 * unit.radius.v + 50 * (i - 1)

\* C6 amended: at most 5 records, in the order of the service's elements,
\* the i-th with distance_km = radius*0.3 + 0.5*i rounded to one decimal
\* (exact when radius*0.3 has no second decimal, as for the default 10).
C6_RoundedDistance ==
    LocatorCall =>
        LET out == unit.result.value
            els == unit.collab.elements
        IN  /\ Len(out) <= 5
            /\ Len(out) <= Len(els)
            /\ (unit.collab.kind = "json" /\ \A i \in 1..Len(els) : i <= 5 => els[i].dict)
                  => Len(out) = (IF Len(els) < 5 THEN Len(els) ELSE 5)
            /\ \A i \in 1..Len(out) :
                  LET exact == 3 * unit.radius.v + 50 * (i - 1)
                      d == 10 * out[i].distance_km
                  IN  /\ d - exact <= 5
                      /\ exact - d <= 5
                      /\ out[i].name = (IF "name" \in DOMAIN els[i].tags
                                        THEN els[i].tags["name"]
                                        ELSE <<"Unnamed Doctor">>)

\* C6's case: six elements cut to five at radius 0.2 km, where
\* 0.06, 0.56, ... are rounded to 0.1, 0.6, ...
C6_Witness ==
    /\ LocatorCall
    /\ unit.radius.v = 2
    /\ Len(unit.collab.elements) = 6
    /\ Len(unit.result.value) = 5
    /\ unit.result.value[1].distance_km = 1
    /\ unit.result.value[5].distance_km = 21
    /\ unit.result.value[1].name # unit.result.value[2].name

\* query_rag was called on a mapping and the chain gave an answer text
RagAnswered ==
    unit.fn = "query_rag" /\ unit.input.t = "obj" /\ unit.collab.kind = "answer"

\* the three parts of C7, for the text a as the answer
PartitionedAs(a, out) ==
    LET hasCause == Contains(Lower(a), <<"c","a","u","s","e">>)
        hasAdvice == \/ Contains(Lower(a), <<"s","u","g","g","e","s","t">>)
                     \/ Contains(Lower(a), <<"r","e","c","o","m","m","e","n","d">>)
    IN  /\ hasCause => out.causes = <<a>>
        /\ hasAdvice => out.suggestions = <<a>>
        /\ (~hasCause /\ ~hasAdvice) =>
              /\ out.causes = <<a>>
              /\ out.suggestions =
                    << <<"Consult a healthcare provider for personalized advice.">> >>

\* C7 as stated: the answer text A the generation call returned is what is
\* put into causes and suggestions.
C7_PartitionRawAnswer ==
    RagAnswered => PartitionedAs(unit.collab.result, unit.result.value)

\* C7 amended: the partition is of A with its leading and trailing
\* whitespace stripped; that text is what the lists hold.
C7_PartitionStrippedAnswer ==
    RagAnswered =>
        /\ PartitionedAs(Strip(unit.collab.result), unit.result.value)
        /\ \A i \in 1..Len(unit.result.value.causes) :
              unit.result.value.causes[i] = Strip(unit.collab.result)

\* C7's case: " Cause" (leading blank, capital C): causes holds "Cause"
C7_Witness ==
    /\ RagAnswered
    /\ unit.collab.result = <<" ","C","a","u","s","e">>
    /\ unit.result.value.causes = << <<"C","a","u","s","e">> >>
    /\ Len(unit.result.value.suggestions) = 1

\* classify_risk was called on a mapping whose fields convert
ClassifierFed == unit.fn = "classify_risk" /\ unit.defined

\* the number a numeric field's value stands for, in tenths (default 0)
FieldNumber(key) ==
    IF key \notin DOMAIN unit.input.v THEN 0
    ELSE IF unit.input.v[key].t = "str"
         THEN (IF unit.input.v[key].v = <<"4","5">> THEN 450 ELSE -1)
    ELSE unit.input.v[key].v

\* positions 2..8 of the feature vector: the fixed order, and 0/1 codes
OrderedFeatures ==
    /\ Len(unit.features) = 8
    /\ unit.features[2] = FieldNumber("Age")
    /\ unit.features[3] = FieldNumber("Systolic BP")
    /\ unit.features[4] = FieldNumber("Diastolic BP")
    /\ unit.features[5] = FieldNumber("Cholesterol")
    /\ unit.features[6] = FieldNumber("BMI")
    /\ unit.features[7] \in {0, 1}
    /\ unit.features[8] \in {0, 1}
    /\ unit.input = ExampleVitals =>
          unit.features = <<1, 450, 1300, 850, 2100, 275, 1, 0>>

\* Gender is the text s, in some letter case
GenderIs(spellings) ==
    /\ "Gender" \in DOMAIN unit.input.v
    /\ unit.input.v["Gender"].t = "str"
    /\ unit.input.v["Gender"].v \in spellings

\* C8 as stated: gender is 1 when Gender is female and 2 for any other value.
C8_FemaleOnly ==
    ClassifierFed =>
        /\ OrderedFeatures
        /\ unit.features[1] =
              (IF GenderIs({<<"f","e","m","a","l","e">>, <<"F","e","m","a","l","e">>,
                            <<"F","E","M","A","L","E">>}) THEN 1 ELSE 2)

\* C8 amended: gender is 1 when Gender, lowercased, is "female" or "f", and
\* 2 for any other value (a missing Gender too).
C8_FemaleOrF ==
    ClassifierFed =>
        /\ OrderedFeatures
        /\ unit.features[1] =
              (IF GenderIs({<<"f","e","m","a","l","e">>, <<"F","e","m","a","l","e">>,
                            <<"F","E","M","A","L","E">>, <<"f">>, <<"F">>})
               THEN 1 ELSE 2)

\* C8's case: Gender "F" is encoded as 1 and the model is given the vector
C8_Witness ==
    /\ ClassifierFed
    /\ GenderIs({<<"F">>})
    /\ unit.features = <<1, 450, 1300, 850, 2100, 275, 1, 0>>
    /\ unit.result.value = "Bad"

----------------------------------------------------------------------------
(* Properties of the bootstrap (SpecBoot) *)

\* C10: a process that finds rag_db loads it and fetches no page; one that
\* does not fetches all 5 pages before it builds and persists.  Nothing
\* keeps two processes that both found no index from building together.
C10_CheckThenBuild ==
    \A p \in Procs :
        /\ (ipc[p] \in {"load", "ready"} /\ sawIndex[p]) => fetched[p] = 0
        /\ (ipc[p] \in {"persist", "ready"} /\ ~sawIndex[p]) => fetched[p] = 5
        /\ (ipc[p] = "ready" /\ ~sawIndex[p]) => (dirExists /\ persisted >= 1)
        /\ ipc[p] = "load" => sawIndex[p]
        /\ ipc[p] \in {"fetch", "persist"} => ~sawIndex[p]

\* C10's case: two processes both saw no index, both fetched the 5 pages and
\* are both between from_documents and persist on the same directory
C10_Witness ==
    \E p, q \in Procs :
        /\ p # q
        /\ ~sawIndex[p] /\ ~sawIndex[q]
        /\ ipc[p] = "persist" /\ ipc[q] = "persist"
        /\ fetched[p] = 5 /\ fetched[q] = 5

====
